---- MODULE Spec2Model ----
(***************************************************************************)
(* Model of BoundsUpdatingOverlay                                          *)
(* (src/lib/components/map/bounds-updating-overlay.js): the React          *)
(* component that moves the Leaflet viewport when the trip-search props    *)
(* change.  The state is the component's lifecycle phase, its props, the   *)
(* timers it has handed to setTimeout and the calls it made on the map in  *)
(* the last step.                                                          *)
(***************************************************************************)
EXTENDS Integers, Sequences, FiniteSets, TLC

VARIABLES
  phase,       \* "init" (constructed), "mounted", "unmounted", or "failed"
               \* (torn down by React after a lifecycle method threw)
  props,       \* this.props: the current snapshot
  prev,        \* the oldProps argument of the last updateBounds call
  leafletMap,  \* whether props.leaflet.map is set
  mobile,      \* what coreUtils.ui.isMobile() answers on this platform
  timers,      \* pending setTimeout callbacks, oldest first
  issued,      \* the calls made on the map and the timer API in the last step
  lastAct,     \* the step that was taken last
  crashed,     \* whether the last step ended in an uncaught TypeError
  scheduled,   \* number of setTimeout calls so far
  executed     \* number of timer callbacks run so far

vars == <<phase, props, prev, leafletMap, mobile, timers, issued, lastAct,
          crashed, scheduled, executed>>

----------------------------------------------------------------------------
(* JavaScript values *)

\* null and undefined, for the fields that otherwise hold an index or an id
NULL == 0 - 1
UNDEF == 0 - 2

\* Delay handed to setTimeout, in milliseconds
SettleDelay == 250

\* The clock of the model advances in steps of half the delay
Quantum == SettleDelay \div 2

\* How many deferred fits one run schedules at most
MaxSchedules == 2

\* const BOUNDS_PADDING = [30, 30]
BOUNDS_PADDING == <<30, 30>>

Min(S) == CHOOSE x \in S : \A y \in S : x <= y
Max(S) == CHOOSE x \in S : \A y \in S : x >= y

----------------------------------------------------------------------------
(* Geometry: Leaflet bounds *)

\* props.itinerary && getLeafletItineraryBounds(...) is null without itinerary
NoBounds == [kind |-> "null", s |-> 0, w |-> 0, n |-> 0, e |-> 0]

\* L.latLngBounds([]) : bounds that were never extended
EmptyBounds == [kind |-> "empty", s |-> 0, w |-> 0, n |-> 0, e |-> 0]

\* Bounding box of a non-empty set of [lat, lon] points
BoxOf(pts) ==
  IF pts = {} THEN EmptyBounds
  ELSE [kind |-> "box",
        s |-> Min({p.lat : p \in pts}), w |-> Min({p.lon : p \in pts}),
        n |-> Max({p.lat : p \in pts}), e |-> Max({p.lon : p \in pts})]

\* bounds.extend(coords)
Extend(b, p) ==
  IF b.kind = "box"
    THEN [kind |-> "box",
          s |-> Min({b.s, p.lat}), w |-> Min({b.w, p.lon}),
          n |-> Max({b.n, p.lat}), e |-> Max({b.e, p.lon})]
    ELSE [kind |-> "box", s |-> p.lat, w |-> p.lon, n |-> p.lat, e |-> p.lon]

\* Whether bounds b contain bounds c
Contains(b, c) ==
  /\ b.kind = "box"
  /\ c.kind = "box"
  /\ b.s <= c.s /\ b.w <= c.w /\ b.n >= c.n /\ b.e >= c.e

\* oldItinBounds.equals(newItinBounds): equal corners
BoundsEquals(a, b) == a = b

\* coreUtils.map.isValidLatLng([lat, lon])
isValidLatLng(p) ==
  /\ p.lat >= 0 - 90 /\ p.lat <= 90
  /\ p.lon >= 0 - 180 /\ p.lon <= 180

----------------------------------------------------------------------------
(* The itineraries and places of the model *)

Pt(lat, lon) == [lat |-> lat, lon |-> lon]

\* An itinerary is a sequence of legs, a leg a sequence of steps, a step a
\* point.  1 and 3 cover the same region with different legs, 2 lies
\* elsewhere and has a single leg, 4 has no leg at all.
Itineraries ==
  << << <<Pt(47, 0 - 122), Pt(48, 0 - 122)>>,
        <<Pt(48, 0 - 122), Pt(48, 0 - 121)>> >>,
     << <<Pt(45, 0 - 120), Pt(46, 0 - 119)>> >>,
     << <<Pt(47, 0 - 122), Pt(48, 0 - 121)>>,
        <<Pt(48, 0 - 121)>> >>,
     << >> >>

ItinIds == DOMAIN Itineraries

Range(f) == {f[i] : i \in DOMAIN f}

\* itinerary.legs[i], i counted from 0; UNDEF outside the array
HasLeg(it, i) == it \in ItinIds /\ i >= 0 /\ i + 1 \in DOMAIN Itineraries[it]
LegOf(it, i) == Itineraries[it][i + 1]

\* leg.steps[j], j counted from 0
HasStep(it, i, j) == HasLeg(it, i) /\ j >= 0 /\ j + 1 \in DOMAIN LegOf(it, i)
StepOf(it, i, j) == LegOf(it, i)[j + 1]

\* getLeafletLegBounds(leg): the region of the leg's points
getLeafletLegBounds(it, i) == BoxOf(Range(LegOf(it, i)))

\* getLeafletItineraryBounds(itinerary): the region of all its legs' points
getLeafletItineraryBounds(it) ==
  BoxOf(UNION {Range(Itineraries[it][k]) : k \in DOMAIN Itineraries[it]})

\* The places a query can name: 1 and 2 are endpoints, 3 is a valid stop and
\* 4 a stop whose latitude is out of range.
Places ==
  << [lat |-> 47, lon |-> 0 - 122, name |-> "a"],
     [lat |-> 48, lon |-> 0 - 123, name |-> "b"],
     [lat |-> 49, lon |-> 0 - 121, name |-> "c"],
     [lat |-> 95, lon |-> 0 - 121, name |-> "d"] >>

PlaceIds == DOMAIN Places

\* The content lodash.isequal compares: null, undefined or the place object
Content(id) ==
  IF id \in PlaceIds THEN <<Places[id].lat, Places[id].lon, Places[id].name>>
  ELSE <<id>>

\* isEqual on two places
isEqual(a, b) == Content(a) = Content(b)

\* Mutant: two lists with the same places in another order count as equal
isEqualList_IgnoresOrder(a, b) ==
  /\ a.def = b.def
  /\ {Content(x) : x \in Range(a.list)} = {Content(x) : x \in Range(b.list)}

\* isEqual on two intermediatePlaces values: a missing query gives undefined
isEqualList(a, b) ==
  /\ a.def = b.def
  /\ Len(a.list) = Len(b.list)
  /\ \A k \in DOMAIN a.list : isEqual(a.list[k], b.list[k])

----------------------------------------------------------------------------
(* Props *)

\* The fields of props that updateBounds reads.  intermediatePlaces is a
\* sequence of place ids, NULL for a null entry.
Snapshot(popup, itin, leg, step, view, from, to, inter) ==
  [popupLocation |-> popup, itinerary |-> itin, activeLeg |-> leg,
   activeStep |-> step, itineraryView |-> view, hasQuery |-> TRUE,
   from |-> from, to |-> to, inter |-> inter]

\* oldProps = oldProps || {} : what componentDidMount compares against
NoProps ==
  [popupLocation |-> FALSE, itinerary |-> UNDEF, activeLeg |-> UNDEF,
   activeStep |-> UNDEF, itineraryView |-> UNDEF, hasQuery |-> FALSE,
   from |-> UNDEF, to |-> UNDEF, inter |-> << >>]

\* props.query && props.query.from
QueryFrom(p) == IF p.hasQuery THEN p.from ELSE UNDEF
\* props.query && props.query.to
QueryTo(p) == IF p.hasQuery THEN p.to ELSE UNDEF
\* props.query && props.query.intermediatePlaces
QueryIntermediate(p) == [def |-> p.hasQuery, list |-> p.inter]

\* props.itinerary && getLeafletItineraryBounds(props.itinerary)
ItinBounds(p) ==
  IF p.itinerary \in ItinIds THEN getLeafletItineraryBounds(p.itinerary)
  ELSE NoBounds

----------------------------------------------------------------------------
(* Calls on the map handle and the timer API *)

PaddingOpts == [key |-> "padding", value |-> BOUNDS_PADDING]
ViewPaddingOpts == [key |-> "ITINERARY_MAP_PADDING", value |-> BOUNDS_PADDING]
NoOpts == [key |-> "none", value |-> <<0, 0>>]

FitBounds(b, o) == [op |-> "fitBounds", bounds |-> b, opts |-> o]
PanTo(lat, lon) == [op |-> "panTo", point |-> Pt(lat, lon)]
InvalidateSize(force) == [op |-> "invalidateSize", force |-> force]
GetBounds(b) == [op |-> "getBounds", result |-> b]
SetTimeout(ms) == [op |-> "setTimeout", delay |-> ms]

\* The padding Leaflet applies to a fitBounds call: options.padding, else none
EffectivePadding(c) == IF c.opts.key = "padding" THEN c.opts.value ELSE <<0, 0>>

\* What map.getBounds() can answer in the model
DisplayedBounds ==
  { [kind |-> "box", s |-> 46, w |-> 0 - 123, n |-> 48, e |-> 0 - 121],
    [kind |-> "box", s |-> 40, w |-> 0 - 110, n |-> 41, e |-> 0 - 109] }

\* The outcome of one handler: the calls it made, the timer it handed to
\* setTimeout (if any) and whether it ended in an uncaught TypeError.
Outcome(calls, timer, crash) == [calls |-> calls, timer |-> timer, crash |-> crash]
Nothing == Outcome(<< >>, << >>, FALSE)
Calls(cs) == Outcome(cs, << >>, FALSE)
Throws == Outcome(<< >>, << >>, TRUE)

----------------------------------------------------------------------------
(* extendBoundsByPlaces *)

\* Mutant: the places are not tested with isValidLatLng
ValidPlaces_NoValidity(list) ==
  {Pt(Places[list[k]].lat, Places[list[k]].lon) :
     k \in {j \in DOMAIN list : list[j] \in PlaceIds}}

\* The places of the list that pass .filter(place => place) and isValidLatLng
ValidPlaces(list) ==
  {Pt(Places[list[k]].lat, Places[list[k]].lon) :
     k \in {j \in DOMAIN list : list[j] \in PlaceIds /\ isValidLatLng(Places[list[j]])}}

RECURSIVE ExtendAll(_, _)
ExtendAll(b, pts) ==
  IF pts = {} THEN b
  ELSE LET p == CHOOSE q \in pts : TRUE
       IN ExtendAll(Extend(b, p), pts \ {p})

extendBoundsByPlaces(bounds, list) == ExtendAll(bounds, ValidPlaces(list))

----------------------------------------------------------------------------
(* _fitItineraryViewToMap *)

\* The callback handed to setTimeout, with what its closure captured
Timer(new, bounds) ==
  [itinerary |-> new.itinerary, activeLeg |-> new.activeLeg,
   bounds |-> bounds, elapsed |-> 0]

\* setTimeout(() => {...}, 250)
fitItineraryViewToMap(new, bounds) ==
  Outcome(<<SetTimeout(SettleDelay)>>, <<Timer(new, bounds)>>, FALSE)

\* Mutant: the callback fits to the whole itinerary whatever the active leg
TimerBody_WholeItinerary(t) ==
  IF t.itinerary \in ItinIds
    THEN Calls(<<InvalidateSize(TRUE), FitBounds(t.bounds, ViewPaddingOpts)>>)
    ELSE Calls(<<InvalidateSize(TRUE)>>)

\* Mutant: the callback reads the props of the time it runs
TimerBody_ReadsProps(t) ==
  IF props.itinerary \in ItinIds
    THEN IF props.activeLeg # NULL
           THEN IF HasLeg(props.itinerary, props.activeLeg)
                  THEN Calls(<<InvalidateSize(TRUE),
                               FitBounds(getLeafletLegBounds(props.itinerary, props.activeLeg),
                                         ViewPaddingOpts)>>)
                  ELSE Outcome(<<InvalidateSize(TRUE)>>, << >>, TRUE)
           ELSE Calls(<<InvalidateSize(TRUE), FitBounds(ItinBounds(props), ViewPaddingOpts)>>)
    ELSE Calls(<<InvalidateSize(TRUE)>>)

\* The body of the callback
TimerBody(t) ==
  IF t.itinerary \in ItinIds
    THEN IF t.activeLeg # NULL
           THEN IF HasLeg(t.itinerary, t.activeLeg)
                  THEN Calls(<<InvalidateSize(TRUE),
                               FitBounds(getLeafletLegBounds(t.itinerary, t.activeLeg),
                                         ViewPaddingOpts)>>)
                  ELSE Outcome(<<InvalidateSize(TRUE)>>, << >>, TRUE)
           ELSE Calls(<<InvalidateSize(TRUE), FitBounds(t.bounds, ViewPaddingOpts)>>)
    ELSE Calls(<<InvalidateSize(TRUE)>>)

----------------------------------------------------------------------------
(* updateBounds *)

\* Mutant: only the new props are asked for a popup
PopupActive_NewOnly(old, new) == new.popupLocation

\* if (oldProps.popupLocation || newProps.popupLocation) return
PopupActive(old, new) == old.popupLocation \/ new.popupLocation

\* Mutant: the old from is compared with the new to
fromChanged_ComparesTo(old, new) == ~isEqual(QueryFrom(old), QueryTo(new))

fromChanged(old, new) == ~isEqual(QueryFrom(old), QueryFrom(new))
toChanged(old, new) == ~isEqual(QueryTo(old), QueryTo(new))
intermediateChanged(old, new) ==
  ~isEqualList(QueryIntermediate(old), QueryIntermediate(new))

itineraryViewChanged(old, new) == old.itineraryView # new.itineraryView

\* Mutant: an itinerary that appears where there was none is not a change
ItinBoundsChanged_NoFirst(old, new) ==
  LET o == ItinBounds(old)
      n == ItinBounds(new)
  IN o.kind # "null" /\ n.kind # "null" /\ ~BoundsEquals(o, n)

\* (!oldItinBounds && newItinBounds) ||
\* (oldItinBounds && newItinBounds && !oldItinBounds.equals(newItinBounds))
ItinBoundsChanged(old, new) ==
  LET o == ItinBounds(old)
      n == ItinBounds(new)
  IN \/ o.kind = "null" /\ n.kind # "null"
     \/ o.kind # "null" /\ n.kind # "null" /\ ~BoundsEquals(o, n)

\* Mutant: the active step is compared where the active leg should be
LegMadeActive_ComparesStep(old, new) ==
  /\ new.itinerary \in ItinIds
  /\ new.activeStep # old.activeStep
  /\ new.activeLeg # NULL

\* newProps.itinerary && newProps.activeLeg !== oldProps.activeLeg &&
\* newProps.activeLeg !== null
LegMadeActive(old, new) ==
  /\ new.itinerary \in ItinIds
  /\ new.activeLeg # old.activeLeg
  /\ new.activeLeg # NULL

\* newFrom && newTo && (fromChanged || toChanged)
EndpointsChanged(old, new) ==
  /\ new.from \in PlaceIds
  /\ new.to \in PlaceIds
  /\ (fromChanged(old, new) \/ toChanged(old, new))

\* Mutant: the active step is not compared with the previous one
StepMadeActive_NoCompare(old, new) ==
  /\ new.itinerary \in ItinIds
  /\ new.activeLeg # NULL
  /\ new.activeStep # NULL

\* newProps.itinerary && newProps.activeLeg !== null &&
\* newProps.activeStep !== null && newProps.activeStep !== oldProps.activeStep
StepMadeActive(old, new) ==
  /\ new.itinerary \in ItinIds
  /\ new.activeLeg # NULL
  /\ new.activeStep # NULL
  /\ new.activeStep # old.activeStep

\* map.fitBounds(getLeafletLegBounds(newProps.itinerary.legs[newProps.activeLeg]), ...)
FitActiveLeg(new) ==
  IF HasLeg(new.itinerary, new.activeLeg)
    THEN Calls(<<FitBounds(getLeafletLegBounds(new.itinerary, new.activeLeg),
                           PaddingOpts)>>)
    ELSE Throws

\* Mutant: the pan to from is made after the fit to from and to as well
FitEndpoints_ThenPans(new) ==
  Calls(<<FitBounds(extendBoundsByPlaces(
                      BoxOf({Pt(Places[new.from].lat, Places[new.from].lon),
                             Pt(Places[new.to].lat, Places[new.to].lon)}),
                      new.inter),
                    PaddingOpts),
          PanTo(Places[new.from].lat, Places[new.from].lon)>>)

\* L.bounds of from and to, extended by the intermediate places, handed to
\* fitBounds as [[left, bottom], [right, top]]
FitEndpoints(new) ==
  LET f == Places[new.from]
      t == Places[new.to]
      b == extendBoundsByPlaces(BoxOf({Pt(f.lat, f.lon), Pt(t.lat, t.lon)}),
                                new.inter)
      \* L.Bounds holds points with x = lat and y = lon; getBottomLeft is
      \* (min.x, max.y) and getTopRight is (max.x, min.y)
      left == b.s
      bottom == b.e
      right == b.n
      top == b.w
  IN Calls(<<FitBounds(BoxOf({Pt(left, bottom), Pt(right, top)}), PaddingOpts)>>)

\* map.getBounds(), extended by the intermediate places, fitted without options
FitIntermediate(new, displayed) ==
  Calls(<<GetBounds(displayed),
          FitBounds(extendBoundsByPlaces(displayed, new.inter), NoOpts)>>)

\* Mutant: the pan goes to the first step of the active leg
PanToStep_FirstStep(new) ==
  IF HasStep(new.itinerary, new.activeLeg, new.activeStep)
    THEN LET st == StepOf(new.itinerary, new.activeLeg, 0)
         IN Calls(<<PanTo(st.lat, st.lon)>>)
    ELSE Throws

\* const leg = ...legs[activeLeg]; const step = leg.steps[activeStep]; panTo
PanToStep(new) ==
  IF HasStep(new.itinerary, new.activeLeg, new.activeStep)
    THEN LET st == StepOf(new.itinerary, new.activeLeg, new.activeStep)
         IN Calls(<<PanTo(st.lat, st.lon)>>)
    ELSE Throws

\* if (!map) return
MapMissing_Never(map) == FALSE

MapMissing(map) == ~map

\* The body of the from-and-to branch: the fit is made only off mobile, and the
\* branch ends the ladder either way
EndpointsBranch_IgnoresMobile(new, mob) == {FitEndpoints(new)}

EndpointsBranch(new, mob) == IF ~mob THEN {FitEndpoints(new)} ELSE {Nothing}

\* updateBounds (oldProps, newProps): the set of outcomes it can have, one
\* for every answer of map.getBounds() where it is asked
updateBounds(old, new, map, mob) ==
  IF PopupActive(old, new) THEN {Nothing}
  ELSE IF MapMissing(map) THEN {Nothing}
  ELSE IF itineraryViewChanged(old, new)
    THEN {fitItineraryViewToMap(new, ItinBounds(new))}
  ELSE IF ItinBoundsChanged(old, new)
    THEN {Calls(<<FitBounds(ItinBounds(new), PaddingOpts)>>)}
  ELSE IF LegMadeActive(old, new) THEN {FitActiveLeg(new)}
  ELSE IF EndpointsChanged(old, new) THEN EndpointsBranch(new, mob)
  ELSE IF new.from \in PlaceIds /\ fromChanged(old, new)
    THEN {Calls(<<PanTo(Places[new.from].lat, Places[new.from].lon)>>)}
  ELSE IF new.to \in PlaceIds /\ toChanged(old, new)
    THEN {Calls(<<PanTo(Places[new.to].lat, Places[new.to].lon)>>)}
  ELSE IF new.hasQuery /\ intermediateChanged(old, new)
    THEN {FitIntermediate(new, d) : d \in DisplayedBounds}
  ELSE IF StepMadeActive(old, new) THEN {PanToStep(new)}
  ELSE {Nothing}

----------------------------------------------------------------------------
(* The props the model draws from *)

\* The view half of a snapshot: popup, itinerary, active leg and step, view
ViewStates ==
  [popupLocation : BOOLEAN, itinerary : {NULL} \cup ItinIds,
   activeLeg : {NULL, 0, 1}, activeStep : {NULL, 0, 1},
   itineraryView : {UNDEF, 1}]

\* The query half: endpoints and intermediate places (place 4 is invalid)
Queries ==
  [from : {NULL, 1, 2}, to : {NULL, 1, 2},
   inter : {<< >>, <<3, 4>>, <<4, 3>>, <<NULL, 3>>}]

Join(v, q) ==
  Snapshot(v.popupLocation, v.itinerary, v.activeLeg, v.activeStep,
           v.itineraryView, q.from, q.to, q.inter)

\* The view states that are paired with every query: no popup, no view mode
BaseViews ==
  {[popupLocation |-> FALSE, itinerary |-> x[1], activeLeg |-> x[2],
    activeStep |-> x[3], itineraryView |-> UNDEF] :
     x \in {<<NULL, NULL, NULL>>, <<1, NULL, NULL>>, <<1, 0, 0>>,
            <<1, 1, 1>>, <<3, 1, 1>>}}

\* The queries that are paired with every view state
BaseQueries ==
  {[from |-> NULL, to |-> NULL, inter |-> << >>],
   [from |-> 1, to |-> 2, inter |-> <<3, 4>>]}

\* The snapshots of the classification runs: every view state with a base
\* query, and every query with a base view state
Snapshots ==
  {Join(v, q) : v \in ViewStates, q \in BaseQueries}
    \cup {Join(v, q) : v \in BaseViews, q \in Queries}

\* The snapshots of the lifecycle runs: no query, and an itinerary with or
\* without an active leg (itinerary 2 has no leg 1)
LifeSnapshots ==
  {Snapshot(popup, il[1], il[2], NULL, view, NULL, NULL, << >>) :
     popup \in BOOLEAN, view \in {UNDEF, 1},
     il \in {<<NULL, NULL>>, <<1, NULL>>, <<1, 1>>, <<2, 1>>}}

----------------------------------------------------------------------------
(* Lifecycle *)

\* The effect of a handler's outcome r on the timers and the call log
Apply(r) ==
  /\ scheduled + Len(r.timer) <= MaxSchedules
  /\ issued' = r.calls
  /\ timers' = timers \o r.timer
  /\ crashed' = r.crash
  /\ scheduled' = scheduled + Len(r.timer)
  /\ executed' = executed

\* componentDidMount () { this.updateBounds(null, this.props) }
componentDidMount ==
  /\ phase = "init"
  /\ \E r \in updateBounds(NoProps, props, leafletMap, mobile) :
       /\ Apply(r)
       /\ phase' = IF r.crash THEN "failed" ELSE "mounted"
  /\ prev' = NoProps
  /\ lastAct' = "mount"
  /\ UNCHANGED <<props, leafletMap, mobile>>

\* componentDidUpdate (prevProps) { this.updateBounds(prevProps, this.props) }
\* after the props became new and props.leaflet.map became map
componentDidUpdate(new, map) ==
  /\ phase = "mounted"
  /\ \E r \in updateBounds(props, new, map, mobile) :
       /\ Apply(r)
       /\ phase' = IF r.crash THEN "failed" ELSE "mounted"
  /\ prev' = props
  /\ props' = new
  /\ leafletMap' = map
  /\ lastAct' = "update"
  /\ UNCHANGED mobile

\* componentWillUnmount () {}
componentWillUnmount ==
  /\ phase = "mounted"
  /\ phase' = "unmounted"
  /\ issued' = << >>
  /\ crashed' = FALSE
  /\ lastAct' = "unmount"
  /\ UNCHANGED <<props, prev, leafletMap, mobile, timers, scheduled, executed>>

\* Time passes: every pending timer is Quantum closer to its delay
Tick ==
  /\ \E k \in DOMAIN timers : timers[k].elapsed < SettleDelay
  /\ timers' = [k \in DOMAIN timers |->
                  [timers[k] EXCEPT !.elapsed = Min({@ + Quantum, SettleDelay})]]
  /\ issued' = << >>
  /\ crashed' = FALSE
  /\ lastAct' = "tick"
  /\ UNCHANGED <<phase, props, prev, leafletMap, mobile, scheduled, executed>>

\* Mutant: the callback may run as soon as it is scheduled
Due_AtOnce(t) == t.elapsed >= 0

\* Whether the timer's delay has elapsed
Due(t) == t.elapsed >= SettleDelay

\* The event loop runs the oldest timer callback whose delay has elapsed
TimerFire ==
  /\ timers # << >>
  /\ Due(Head(timers))
  /\ LET r == TimerBody(Head(timers))
     IN /\ issued' = r.calls
        /\ crashed' = r.crash
  /\ timers' = Tail(timers)
  /\ executed' = executed + 1
  /\ lastAct' = "timer"
  /\ UNCHANGED <<phase, props, prev, leafletMap, mobile, scheduled>>

\* The props change; a map handle, once there, stays
Update ==
  \E new \in LifeSnapshots, map \in BOOLEAN :
    (leafletMap => map) /\ componentDidUpdate(new, map)

Init ==
  /\ phase = "init"
  /\ props \in LifeSnapshots
  /\ prev = NoProps
  /\ leafletMap \in BOOLEAN
  /\ mobile = FALSE
  /\ timers = << >>
  /\ issued = << >>
  /\ lastAct = "none"
  /\ crashed = FALSE
  /\ scheduled = 0
  /\ executed = 0

Next ==
  \/ componentDidMount
  \/ Update
  \/ componentWillUnmount
  \/ Tick
  \/ TimerFire

Spec == Init /\ [][Next]_vars

----------------------------------------------------------------------------
(* Timer runs: the lifecycle with the map present and no popup, under the  *)
(* fairness of the event loop                                              *)

TimerSnapshots == {s \in LifeSnapshots : ~s.popupLocation}

TimerInit == Init /\ leafletMap /\ props \in TimerSnapshots

TimerUpdate == \E new \in TimerSnapshots : componentDidUpdate(new, TRUE)

TimerNext ==
  \/ componentDidMount
  \/ TimerUpdate
  \/ componentWillUnmount
  \/ Tick
  \/ TimerFire

\* The event loop lets time pass and runs every timer that is due
FairSpec ==
  TimerInit /\ [][TimerNext]_vars /\ WF_vars(Tick) /\ WF_vars(TimerFire)

----------------------------------------------------------------------------
(* Classification runs: one transition between any two snapshots, and the *)
(* deferred fit it schedules                                               *)

ClassifyInit ==
  /\ phase \in {"init", "mounted"}
  /\ props \in Snapshots
  /\ prev = NoProps
  /\ leafletMap \in (IF phase = "init" THEN BOOLEAN ELSE {TRUE})
  /\ mobile \in BOOLEAN
  /\ timers = << >>
  /\ issued = << >>
  /\ lastAct = "none"
  /\ crashed = FALSE
  /\ scheduled = 0
  /\ executed = 0

ClassifyMount == lastAct = "none" /\ componentDidMount

ClassifyUpdate ==
  /\ lastAct = "none"
  /\ \E new \in Snapshots, map \in BOOLEAN : componentDidUpdate(new, map)

ClassifyNext ==
  \/ ClassifyMount
  \/ ClassifyUpdate
  \/ Tick
  \/ TimerFire

ClassifySpec == ClassifyInit /\ [][ClassifyNext]_vars

----------------------------------------------------------------------------
(* Reading the call log *)

\* The last step was a run of updateBounds
HandlerRan == lastAct \in {"mount", "update"}

\* The calls of the last step that move or resize the map
ViewportCalls ==
  {k \in DOMAIN issued : issued[k].op \in {"fitBounds", "panTo", "invalidateSize"}}

\* The calls of the last step that fit or pan
FitOrPanCalls == {k \in DOMAIN issued : issued[k].op \in {"fitBounds", "panTo"}}

\* Neither snapshot of the last transition has a popup, and the map is there
NoPopupAndMap == ~prev.popupLocation /\ ~props.popupLocation /\ leafletMap

\* The region of the itinerary of snapshot p, for a p that has one
RegionOf(p) == getLeafletItineraryBounds(p.itinerary)

----------------------------------------------------------------------------
(* C1 *)

\* C1: once componentWillUnmount has run, no timer callback calls
\* invalidateSize or fitBounds on the map any more.
C1_NoCallAfterTeardown ==
  ~(phase = "unmounted" /\ lastAct = "timer" /\ ViewportCalls # {})

(* C2 *)

\* C2: only the most recently scheduled deferred fit ever fires: a view-mode
\* change cancels the fit that is pending, so when a timer callback has run
\* no later-scheduled one is still pending.
C2_OnlyLatestFires == lastAct = "timer" => timers = << >>

(* C3 *)

\* C3: when the previous or the current snapshot has popupLocation set,
\* updateBounds makes no call on the map and schedules no deferred fit.
C3_PopupSuppresses ==
  (HandlerRan /\ (prev.popupLocation \/ props.popupLocation))
    => issued = << >> /\ timers = << >> /\ scheduled = 0

C3_Witness ==
  /\ lastAct = "update"
  /\ prev.popupLocation /\ ~props.popupLocation
  /\ leafletMap
  /\ prev.itineraryView # props.itineraryView
  /\ prev.itinerary = 1 /\ props.itinerary = 2
  /\ issued = << >>

(* C4 *)

\* C4: while the component is mounted and the current props have
\* popupLocation set, no step calls fitBounds, panTo or invalidateSize.
C4_PopupNeverDisturbed ==
  (phase = "mounted" /\ props.popupLocation) => ViewportCalls = {}

(* C5 *)

\* C5: without popup and with the view mode unchanged, a transition to an
\* itinerary whose region differs from the previous itinerary's, or that
\* appears where there was none, fits the map to the new itinerary's region
\* and does nothing else, whatever happened to from, to, the intermediate
\* places, the active leg and the active step; the same snapshot delivered
\* again makes no call.
C5_ItineraryChangeFits ==
  (HandlerRan /\ NoPopupAndMap /\ prev.itineraryView = props.itineraryView)
    => /\ ( /\ props.itinerary \in ItinIds
            /\ \/ prev.itinerary \notin ItinIds
               \/ RegionOf(prev) # RegionOf(props) )
          => /\ Len(issued) = 1
             /\ issued[1].op = "fitBounds"
             /\ issued[1].bounds = RegionOf(props)
             /\ timers = << >>
       /\ (props.itinerary \in ItinIds /\ prev = props) => issued = << >>

C5_Witness ==
  /\ lastAct = "update"
  /\ NoPopupAndMap
  /\ prev.itinerary = 1 /\ props.itinerary = 2
  /\ prev.from # props.from /\ prev.to # props.to /\ prev.inter # props.inter
  /\ prev.activeLeg # props.activeLeg /\ prev.activeStep # props.activeStep
  /\ issued = <<FitBounds(RegionOf(props), PaddingOpts)>>

(* C6 *)

\* C6: an update whose previous and current props are equal in every field
\* makes no call on the map and schedules no deferred fit.
C6_Idempotent ==
  (lastAct = "update" /\ prev = props)
    => issued = << >> /\ timers = << >> /\ ~crashed

C6_Witness ==
  /\ lastAct = "update"
  /\ prev = props
  /\ NoPopupAndMap
  /\ props.itinerary = 1 /\ props.activeLeg = 1 /\ props.activeStep = 1
  /\ props.from = 1 /\ props.to = 2 /\ props.inter = <<3, 4>>
  /\ issued = << >>

(* C7 *)

\* C7: every fitBounds carries BOUNDS_PADDING as the map's padding option,
\* except the fit of the intermediate-places rule (the one that follows
\* getBounds), which carries none.
C7_EveryFitPadded ==
  \A k \in DOMAIN issued :
    issued[k].op = "fitBounds"
      => IF issued[1].op = "getBounds"
           THEN EffectivePadding(issued[k]) = <<0, 0>>
           ELSE EffectivePadding(issued[k]) = BOUNDS_PADDING

(* C8 *)

\* The last transition changed the view mode, without popup, map present
ViewModeChanged == NoPopupAndMap /\ prev.itineraryView # props.itineraryView

CanFit(t) ==
  /\ t.itinerary \in ItinIds
  /\ t.activeLeg = NULL \/ HasLeg(t.itinerary, t.activeLeg)

\* C9: every deferred fit that is scheduled runs, and runs once: a callback
\* runs only when its 250 ms have elapsed and then leaves the queue, it calls
\* invalidateSize(true) first and, with an itinerary to fit to, fitBounds
\* second and last; no scheduled callback is lost or repeated, and each one
\* is eventually run, also after teardown.
C9_DeferredFitRuns ==
  /\ [][executed' # executed
          => /\ executed' = executed + 1
             /\ Head(timers).elapsed >= SettleDelay
             /\ timers' = Tail(timers)
             /\ issued'[1] = InvalidateSize(TRUE)
             /\ \A k \in DOMAIN issued' :
                  issued'[k].op = "fitBounds" => k = 2 /\ Len(issued') = 2
             /\ CanFit(Head(timers))
                  => Len(issued') = 2 /\ issued'[2].op = "fitBounds"]_vars
  /\ [](executed + Len(timers) = scheduled)
  /\ \A n \in 1 .. MaxSchedules : (scheduled >= n) ~> (executed >= n)

C9_Witness ==
  /\ phase = "mounted"
  /\ lastAct = "timer"
  /\ scheduled = 1 /\ executed = 1
  /\ props.itinerary = 1
  /\ Len(issued) = 2
  /\ issued[1] = InvalidateSize(TRUE)
  /\ issued[2].op = "fitBounds"

(* C10 *)

\* The last transition matches none of the rules 1 to 3: no popup, the view
\* mode unchanged, and the itinerary's region the same as before
RegionUnchanged ==
  /\ NoPopupAndMap
  /\ prev.itineraryView = props.itineraryView
  /\ props.itinerary \in ItinIds
  /\ prev.itinerary \in ItinIds
  /\ RegionOf(prev) = RegionOf(props)

\* The regions of the legs of the current itinerary
LegRegions ==
  {getLeafletLegBounds(props.itinerary, i - 1) : i \in DOMAIN Itineraries[props.itinerary]}

\* C10: when rules 1 to 3 do not match and activeLeg changed to the index of
\* a leg of the itinerary, updateBounds makes exactly one call, a fitBounds to
\* that leg's region with BOUNDS_PADDING as padding, whatever happened to the
\* endpoints, the intermediate places and the active step; when activeLeg
\* changed to null, no fit to a leg's region is made.
C10_ActiveLegFits ==
  (lastAct = "update" /\ RegionUnchanged /\ prev.activeLeg # props.activeLeg)
    => /\ HasLeg(props.itinerary, props.activeLeg)
            => issued = <<FitBounds(getLeafletLegBounds(props.itinerary, props.activeLeg),
                                    PaddingOpts)>>
       /\ props.activeLeg = NULL
            => \A k \in DOMAIN issued :
                 issued[k].op = "fitBounds" => issued[k].bounds \notin LegRegions

C10_Witness ==
  /\ lastAct = "update"
  /\ RegionUnchanged
  /\ prev.itinerary = 3 /\ props.itinerary = 1
  /\ prev.activeLeg = 0 /\ props.activeLeg = 1
  /\ prev.from # props.from /\ prev.inter # props.inter
  /\ prev.activeStep # props.activeStep
  /\ issued = <<FitBounds(getLeafletLegBounds(1, 1), PaddingOpts)>>

----------------------------------------------------------------------------
(* C11 *)

\* The last handler run got past the popup test, the map test, the view-mode
\* test, the itinerary-region test and the active-leg test
PastLegRule ==
  /\ HandlerRan
  /\ NoPopupAndMap
  /\ prev.itineraryView = props.itineraryView
  /\ props.itinerary \in ItinIds
       => /\ prev.itinerary \in ItinIds
          /\ RegionOf(prev) = RegionOf(props)
          /\ (props.activeLeg = prev.activeLeg \/ props.activeLeg = NULL)

\* from and to are both set and at least one of them differs from before
BothEndpointsOneChanged ==
  /\ props.from \in PlaceIds
  /\ props.to \in PlaceIds
  /\ (QueryFrom(prev) # props.from \/ QueryTo(prev) # props.to)

\* The points a fit to the endpoints has to enclose: from, to and the
\* intermediate places that are places with coordinates in range
PlacePt(id) == Pt(Places[id].lat, Places[id].lon)

EndpointPoints ==
  {PlacePt(props.from), PlacePt(props.to)}
    \cup {PlacePt(id) : id \in {i \in Range(props.inter) \cap PlaceIds :
                                   /\ Places[i].lat >= 0 - 90 /\ Places[i].lat <= 90
                                   /\ Places[i].lon >= 0 - 180 /\ Places[i].lon <= 180}}

\* C11: off mobile, when rules 1 to 4 do not match and from and to are both
\* set and at least one of them changed, updateBounds makes exactly one call,
\* a fitBounds with BOUNDS_PADDING as padding to the bounding box of from, to
\* and the valid intermediate places; null entries and places with
\* coordinates out of range do not enter the box.
C11_EndpointsFit ==
  (PastLegRule /\ ~mobile /\ BothEndpointsOneChanged)
    => /\ issued = <<FitBounds(BoxOf(EndpointPoints), PaddingOpts)>>
       /\ \A q \in EndpointPoints : Contains(issued[1].bounds, BoxOf({q}))
       /\ issued[1].bounds.n <= 90
       /\ timers = << >>

C11_Witness ==
  /\ lastAct = "update"
  /\ PastLegRule
  /\ ~mobile
  /\ prev.from = 1 /\ props.from = 1
  /\ prev.to = NULL /\ props.to = 2
  /\ props.inter = <<3, 4>>
  /\ issued = <<FitBounds(BoxOf({Pt(47, 0 - 122), Pt(48, 0 - 123), Pt(49, 0 - 121)}),
                          PaddingOpts)>>

----------------------------------------------------------------------------
(* C12 *)

\* C12: on mobile, when rules 1 to 4 do not match and from and to are both
\* set and at least one of them changed, updateBounds calls nothing on the
\* map and schedules nothing, also when the intermediate places or the
\* active step changed in the same transition: the branch is taken and the
\* branches after it are not tried.
C12_MobileSkipsEndpointFit ==
  (PastLegRule /\ mobile /\ BothEndpointsOneChanged)
    => /\ issued = << >>
       /\ timers = << >>
       /\ ~crashed

C12_Witness ==
  /\ lastAct = "update"
  /\ PastLegRule
  /\ mobile
  /\ prev.from = 1 /\ props.from = 2
  /\ prev.to = 2 /\ props.to = 1
  /\ prev.inter = <<3, 4>> /\ props.inter = <<4, 3>>
  /\ props.itinerary = 1 /\ props.activeLeg = 1
  /\ prev.activeStep = 0 /\ props.activeStep = 1
  /\ issued = << >>

----------------------------------------------------------------------------
(* C13 *)

\* The last handler run got past the from-and-to test as well
PastEndpointsRule == PastLegRule /\ ~BothEndpointsOneChanged

FromSetAndChanged == props.from \in PlaceIds /\ QueryFrom(prev) # props.from
ToSetAndChanged == props.to \in PlaceIds /\ QueryTo(prev) # props.to

\* The pan to the active step, where the snapshot names a step
StepPans ==
  IF HasStep(props.itinerary, props.activeLeg, props.activeStep)
       /\ props.activeStep # prev.activeStep
    THEN {PanTo(StepOf(props.itinerary, props.activeLeg, props.activeStep).lat,
                StepOf(props.itinerary, props.activeLeg, props.activeStep).lon)}
    ELSE {}

\* C13: when rules 1 to 5 do not match, a from that changed to a place gives
\* exactly one call, panTo that place; otherwise a to that changed to a place
\* gives exactly one call, panTo that place; from is tested first; an
\* endpoint that changed to null gives no pan to an endpoint, the only pan
\* such a transition can still make is the one to a newly active step.
C13_SingleEndpointPans ==
  PastEndpointsRule
    => /\ FromSetAndChanged
            => issued = <<PanTo(Places[props.from].lat, Places[props.from].lon)>>
       /\ (~FromSetAndChanged /\ ToSetAndChanged)
            => issued = <<PanTo(Places[props.to].lat, Places[props.to].lon)>>
       /\ (~FromSetAndChanged /\ ~ToSetAndChanged)
            => \A k \in DOMAIN issued :
                 issued[k].op = "panTo" => issued[k] \in StepPans

\* Scenario 1: from null, to null and no itinerary, then from is set to a place
C13_Witness ==
  /\ lastAct = "update"
  /\ NoPopupAndMap
  /\ prev.from = NULL /\ prev.to = NULL /\ prev.itinerary = NULL
  /\ props.from = 1 /\ props.to = NULL /\ props.itinerary = NULL
  /\ issued = <<PanTo(47, 0 - 122)>>

----------------------------------------------------------------------------
(* C14 *)

\* The last handler run got past the two pan tests as well
PastPanRule == PastEndpointsRule /\ ~FromSetAndChanged /\ ~ToSetAndChanged

\* intermediatePlaces is not the list it was: other places or another order
IntermediateDiffers == ~prev.hasQuery \/ prev.inter # props.inter

\* The valid intermediate places of the current snapshot
IntermediatePoints ==
  {PlacePt(id) : id \in {i \in Range(props.inter) \cap PlaceIds :
                           /\ Places[i].lat >= 0 - 90 /\ Places[i].lat <= 90
                           /\ Places[i].lon >= 0 - 180 /\ Places[i].lon <= 180}}

\* C14: when rules 1 to 6 do not match and intermediatePlaces differs from
\* before, by its places or by their order alone, updateBounds asks the map
\* for its displayed bounds and then makes exactly one fitBounds, without
\* options and so without padding, to the displayed bounds extended by the
\* valid intermediate places of the current snapshot; the fitted region
\* contains the displayed bounds.
C14_IntermediateExtends ==
  (PastPanRule /\ IntermediateDiffers)
    => /\ Len(issued) = 2
       /\ issued[1].op = "getBounds"
       /\ issued[1].result \in DisplayedBounds
       /\ issued[2] = FitBounds(BoxOf({Pt(issued[1].result.s, issued[1].result.w),
                                       Pt(issued[1].result.n, issued[1].result.e)}
                                        \cup IntermediatePoints),
                                NoOpts)
       /\ EffectivePadding(issued[2]) = <<0, 0>>
       /\ Contains(issued[2].bounds, issued[1].result)
       /\ timers = << >>

\* The same two places in another order
C14_Witness ==
  /\ lastAct = "update"
  /\ PastPanRule
  /\ prev.inter = <<3, 4>> /\ props.inter = <<4, 3>>
  /\ Len(issued) = 2
  /\ issued[2].op = "fitBounds"
  /\ issued[2].bounds # issued[1].result

----------------------------------------------------------------------------
(* C15 *)

\* The last handler run got past the intermediate-places test as well
PastIntermediateRule == PastPanRule /\ ~IntermediateDiffers

\* An itinerary, an active leg and an active step that is not the one before
StepNewlyActive ==
  /\ props.itinerary \in ItinIds
  /\ props.activeLeg # NULL
  /\ props.activeStep # NULL
  /\ props.activeStep # prev.activeStep

\* C15: when rules 1 to 7 do not match, an itinerary exists, activeLeg and
\* activeStep are non-null and activeStep differs from before, updateBounds
\* makes exactly one call, a panTo to the point of the step at (activeLeg,
\* activeStep) where the itinerary has that step; in every remaining case,
\* where those conditions do not all hold, it calls nothing on the map and
\* schedules nothing.
C15_ActiveStepPans ==
  PastIntermediateRule
    => /\ (StepNewlyActive /\ HasStep(props.itinerary, props.activeLeg, props.activeStep))
            => /\ issued = <<PanTo(StepOf(props.itinerary, props.activeLeg, props.activeStep).lat,
                                   StepOf(props.itinerary, props.activeLeg, props.activeStep).lon)>>
               /\ timers = << >>
               /\ ~crashed
       /\ ~StepNewlyActive
            => /\ issued = << >>
               /\ timers = << >>
               /\ ~crashed

C15_Witness ==
  /\ lastAct = "update"
  /\ PastIntermediateRule
  /\ props.itinerary = 1 /\ props.activeLeg = 1
  /\ prev.activeStep = 0 /\ props.activeStep = 1
  /\ issued = <<PanTo(48, 0 - 121)>>

\* A remaining case: the active step was cleared and nothing else changed
C15_NoOpReached ==
  /\ lastAct = "update"
  /\ PastIntermediateRule
  /\ prev.activeStep = 1 /\ props.activeStep = NULL
  /\ issued = << >>

----------------------------------------------------------------------------
(* C16 *)

\* C16: no step, handler or timer callback, calls fitBounds with a region
\* that was built from no point; a branch whose region is empty makes no
\* call and leaves the decision to the branches after it.
C16_NeverFitsEmpty ==
  \A k \in DOMAIN issued :
    issued[k].op = "fitBounds" => issued[k].bounds.kind = "box"

----------------------------------------------------------------------------
(* C17 *)

\* C17: no mount, update or timer callback ends in an uncaught error,
\* whatever the two snapshots are, an activeLeg outside the itinerary's legs
\* and an activeStep outside the active leg's steps included.
C17_NeverThrows == ~crashed

----------------------------------------------------------------------------
(* C18 *)

\* An update that finds the map for the first time, with the props the
\* handler before it was already given
MapArrives ==
  /\ lastAct' = "update"
  /\ ~leafletMap /\ leafletMap'
  /\ props' = props

\* C18: a mount or update that finds no map handle calls nothing, schedules
\* no timer and does not throw, whatever changed between its two snapshots;
\* the props it was given are the previous props of the next update all the
\* same, so when the map is there at the next update and the props are the
\* ones already seen, nothing is called and nothing is scheduled for the
\* change that was seen without map.
C18_NoMapNoReplay ==
  /\ []((HandlerRan /\ ~leafletMap)
          => (issued = << >> /\ timers = << >> /\ scheduled = 0 /\ ~crashed))
  /\ [][(lastAct' = "update" /\ ~leafletMap') => prev' = props]_vars
  /\ [][MapArrives => (prev' = props' /\ issued' = << >> /\ timers' = timers
                         /\ ~crashed')]_vars

\* Without map: the itinerary appeared and the view mode changed, nothing done
C18_Witness ==
  /\ lastAct = "update"
  /\ ~leafletMap
  /\ ~prev.popupLocation /\ ~props.popupLocation
  /\ prev.itinerary = NULL /\ props.itinerary = 2 /\ props.activeLeg = 1
  /\ prev.itineraryView # props.itineraryView
  /\ issued = << >>
  /\ timers = << >>
  /\ ~crashed

----------------------------------------------------------------------------
(* C19 *)

\* The setTimeout calls of the last step
DeferredCalls == {k \in DOMAIN issued : issued[k].op = "setTimeout"}

\* C19: one run of updateBounds, at mount or at an update, results in at
\* most one viewport command: either one fitBounds or one panTo made at once,
\* or one deferred fit handed to setTimeout, never two of them, however many
\* of the props changed together; the deferred fit, when it runs, makes at
\* most one fitBounds and no panTo; and no timer is pending that this run
\* did not schedule itself.
C19_AtMostOneCommand ==
  /\ HandlerRan
       => /\ Cardinality(FitOrPanCalls) + Cardinality(DeferredCalls) <= 1
          /\ Len(timers) = Cardinality(DeferredCalls)
  /\ lastAct = "timer"
       => /\ Cardinality(FitOrPanCalls) <= 1
          /\ \A k \in DOMAIN issued : issued[k].op # "panTo"

\* Region, active leg, both endpoints, the intermediate places and the active
\* step changed together: one fit
C19_Witness ==
  /\ lastAct = "update"
  /\ NoPopupAndMap
  /\ prev.itinerary = 2 /\ props.itinerary = 1
  /\ prev.activeLeg = 0 /\ props.activeLeg = 1
  /\ prev.activeStep = 0 /\ props.activeStep = 1
  /\ prev.from = 1 /\ props.from = 2
  /\ prev.to = 2 /\ props.to = 1
  /\ prev.inter # props.inter
  /\ Cardinality(FitOrPanCalls) = 1
  /\ Len(issued) = 1

----------------------------------------------------------------------------
(* C20 *)

\* What a timer captured: the itinerary, the active leg and the bounds
Captured(t) == <<t.itinerary, t.activeLeg, t.bounds>>

\* The region a callback fits to, from what it captured
CapturedRegion(t) ==
  IF t.activeLeg = NULL THEN getLeafletItineraryBounds(t.itinerary)
  ELSE getLeafletLegBounds(t.itinerary, t.activeLeg)

\* C20: the deferred fit works on the props of the handler that scheduled it:
\* a timer captures the itinerary, the active leg and the itinerary bounds of
\* the new props of that handler; updates that come during the 250 ms leave
\* the captured values as they are; and the callback, when it runs, fits to
\* the captured leg's or itinerary's region whatever the props are by then,
\* so its fitBounds can come after the fitBounds or panTo of a later update.
C20_DeferredFitUsesCapture ==
  /\ [][Len(timers') > Len(timers)
          => Captured(timers'[Len(timers')])
               = <<props'.itinerary, props'.activeLeg, ItinBounds(props')>>]_vars
  /\ [][\A k \in DOMAIN timers :
          IF executed' = executed
            THEN Captured(timers'[k]) = Captured(timers[k])
            ELSE k > 1 => timers'[k - 1] = timers[k]]_vars
  /\ [][(executed' = executed + 1 /\ CanFit(Head(timers)))
          => issued' = <<InvalidateSize(TRUE),
                         FitBounds(CapturedRegion(Head(timers)), ViewPaddingOpts)>>]_vars

\* The view mode changed with itinerary 1, then the itinerary was replaced
\* by 2, which was fitted at once; the callback then fitted to itinerary 1
C20_Witness ==
  /\ lastAct = "timer"
  /\ scheduled = 1 /\ executed = 1
  /\ ~prev.popupLocation /\ ~props.popupLocation
  /\ prev.itineraryView = props.itineraryView
  /\ prev.itinerary = 1 /\ prev.activeLeg = NULL
  /\ props.itinerary = 2
  /\ issued = <<InvalidateSize(TRUE),
                FitBounds(getLeafletItineraryBounds(1), ViewPaddingOpts)>>
  /\ issued[2].bounds # RegionOf(props)

====
